---- MODULE Spec2Model ----
(***************************************************************************)
(* Model of assignment_3/fast-sin.cpp: the range reducer angle_transform,  *)
(* the Taylor evaluators sin4_taylor / sin4_intrin / sin4_vector /         *)
(* cos4_vector, and the benchmark driver main.                             *)
(*                                                                         *)
(* The program computes in IEEE-754 binary64 (`double`).  TLC's integers   *)
(* are 32 bits wide, so a double is modelled as sign, 53-bit significand   *)
(* held as a little-endian sequence of 15-bit limbs, and binary exponent;  *)
(* every arithmetic operation computes the exact result and rounds it to   *)
(* nearest, ties to even, as the hardware does.  Exponent overflow and     *)
(* subnormals are not modelled: the inputs below keep every intermediate   *)
(* value between 2^-300 and 2^70.                                          *)
(***************************************************************************)
EXTENDS Integers, Sequences, FiniteSets, TLC

(***************************************************************************)
(* Natural numbers of arbitrary size: little-endian limbs, no leading      *)
(* zero limb, <<>> is zero.                                                *)
(***************************************************************************)
LimbBits == 3 * 5
LimbBase == 2^LimbBits

Limb(a, i) == IF i <= Len(a) THEN a[i] ELSE 0

RECURSIVE BNStrip(_)
BNStrip(a) ==
  IF a = <<>> THEN <<>>
  ELSE IF a[Len(a)] = 0 THEN BNStrip(SubSeq(a, 1, Len(a) - 1)) ELSE a

RECURSIVE BNAddC(_, _, _, _)
BNAddC(a, b, i, c) ==
  IF i > Len(a) /\ i > Len(b) THEN (IF c = 0 THEN <<>> ELSE <<c>>)
  ELSE LET s == Limb(a, i) + Limb(b, i) + c
       IN  <<s % LimbBase>> \o BNAddC(a, b, i + 1, s \div LimbBase)

BNAdd(a, b) == BNAddC(a, b, 1, 0)

\* a - b for a >= b
RECURSIVE BNSubC(_, _, _, _)
BNSubC(a, b, i, c) ==
  IF i > Len(a) THEN <<>>
  ELSE LET s == a[i] - Limb(b, i) - c
       IN  IF s < 0 THEN <<s + LimbBase>> \o BNSubC(a, b, i + 1, 1)
           ELSE <<s>> \o BNSubC(a, b, i + 1, 0)

BNSub(a, b) == BNStrip(BNSubC(a, b, 1, 0))

\* -1, 0, 1 as a < b, a = b, a > b
RECURSIVE BNCmpAt(_, _, _)
BNCmpAt(a, b, i) ==
  IF i = 0 THEN 0
  ELSE IF a[i] < b[i] THEN -1
  ELSE IF a[i] > b[i] THEN 1
  ELSE BNCmpAt(a, b, i - 1)

BNCmp(a, b) ==
  IF Len(a) < Len(b) THEN -1
  ELSE IF Len(a) > Len(b) THEN 1
  ELSE BNCmpAt(a, b, Len(a))

\* a * k for 0 <= k < LimbBase
RECURSIVE BNMulSmallC(_, _, _, _)
BNMulSmallC(a, k, i, c) ==
  IF i > Len(a) THEN (IF c = 0 THEN <<>> ELSE <<c>>)
  ELSE LET s == a[i] * k + c
       IN  <<s % LimbBase>> \o BNMulSmallC(a, k, i + 1, s \div LimbBase)

BNMulSmall(a, k) == IF k = 0 THEN <<>> ELSE BNMulSmallC(a, k, 1, 0)

Zeros(n) == [i \in 1..n |-> 0]

BNShiftLimbs(a, n) == IF a = <<>> THEN <<>> ELSE Zeros(n) \o a

RECURSIVE BNMulAt(_, _, _)
BNMulAt(a, b, i) ==
  IF i > Len(b) THEN <<>>
  ELSE BNAdd(BNShiftLimbs(BNMulSmall(a, b[i]), i - 1), BNMulAt(a, b, i + 1))

BNMul(a, b) == BNMulAt(a, b, 1)

\* floor(a / d) and a mod d for 0 < d <= LimbBase; limbs from the top down
RECURSIVE BNDivSmallAt(_, _, _, _)
BNDivSmallAt(a, d, i, r) ==
  IF i = 0 THEN [q |-> <<>>, r |-> r]
  ELSE LET t    == r * LimbBase + a[i]
           rest == BNDivSmallAt(a, d, i - 1, t % d)
       IN  [q |-> rest.q \o <<t \div d>>, r |-> rest.r]

BNDivSmall(a, d) ==
  LET res == BNDivSmallAt(a, d, Len(a), 0)
  IN  [q |-> BNStrip(res.q), r |-> res.r]

\* a * 2^k
BNShl(a, k) ==
  IF k = 0 THEN a
  ELSE BNShiftLimbs(BNMulSmall(a, 2^(k % LimbBits)), k \div LimbBits)

\* floor(a / 2^k)
BNShr(a, k) ==
  LET n == k \div LimbBits
  IN  IF n >= Len(a) THEN <<>>
      ELSE BNDivSmall(SubSeq(a, n + 1, Len(a)), 2^(k % LimbBits)).q

\* bit j of a (bit 0 the lowest), and whether any bit below bit j is set
BNBit(a, j) == (Limb(a, j \div LimbBits + 1) \div 2^(j % LimbBits)) % 2

BNAnyBelow(a, j) ==
  \/ \E n \in 1..(j \div LimbBits) : Limb(a, n) # 0
  \/ Limb(a, j \div LimbBits + 1) % 2^(j % LimbBits) # 0

RECURSIVE BitLenSmall(_)
BitLenSmall(n) == IF n = 0 THEN 0 ELSE 1 + BitLenSmall(n \div 2)

BNBitLen(a) ==
  IF a = <<>> THEN 0 ELSE LimbBits * (Len(a) - 1) + BitLenSmall(a[Len(a)])

BNFromNat(n) == IF n = 0 THEN <<>> ELSE <<n>>

(***************************************************************************)
(* double: [neg, man, exp] stands for (-1)^neg * man * 2^exp.  A non-zero  *)
(* value is kept normalised, man having exactly MantissaBits bits.         *)
(***************************************************************************)
MantissaBits == 53

FZero == [neg |-> FALSE, man |-> <<>>, exp |-> 0]

IsZero(x) == x.man = <<>>

\* The double nearest to (-1)^neg * man * 2^exp, ties to even.
RoundD(neg, man, exp) ==
  IF man = <<>> THEN FZero
  ELSE
    LET n == BNBitLen(man) IN
    IF n <= MantissaBits
    THEN [neg |-> neg, man |-> BNShl(man, MantissaBits - n),
          exp |-> exp - (MantissaBits - n)]
    ELSE
      LET k  == n - MantissaBits
          q  == BNShr(man, k)
          up == BNBit(man, k - 1) = 1 /\ (BNAnyBelow(man, k - 1) \/ q[1] % 2 = 1)
          q2 == IF up THEN BNAdd(q, <<1>>) ELSE q
      IN  IF BNBitLen(q2) > MantissaBits
          THEN [neg |-> neg, man |-> BNShr(q2, 1), exp |-> exp + k + 1]
          ELSE [neg |-> neg, man |-> q2, exp |-> exp + k]

Min(a, b) == IF a < b THEN a ELSE b

\* x + y
FAdd(x, y) ==
  IF IsZero(x) THEN y
  ELSE IF IsZero(y) THEN x
  ELSE
    LET e  == Min(x.exp, y.exp)
        mx == BNShl(x.man, x.exp - e)
        my == BNShl(y.man, y.exp - e)
        c  == BNCmp(mx, my)
    IN  IF x.neg = y.neg THEN RoundD(x.neg, BNAdd(mx, my), e)
        ELSE IF c = 0 THEN FZero
        ELSE IF c > 0 THEN RoundD(x.neg, BNSub(mx, my), e)
        ELSE RoundD(y.neg, BNSub(my, mx), e)

FNeg(x) == IF IsZero(x) THEN x ELSE [x EXCEPT !.neg = ~x.neg]

FSub(x, y) == FAdd(x, FNeg(y))

\* x * y
FMul(x, y) ==
  IF IsZero(x) \/ IsZero(y) THEN FZero
  ELSE RoundD(x.neg # y.neg, BNMul(x.man, y.man), x.exp + y.exp)

\* |x| < |y|, by exponent and then significand, both being normalised
MagLt(x, y) ==
  IF IsZero(y) THEN FALSE
  ELSE IF IsZero(x) THEN TRUE
  ELSE x.exp < y.exp \/ (x.exp = y.exp /\ BNCmp(x.man, y.man) < 0)

\* x < y and x > y
FLt(x, y) ==
  IF x.neg /\ ~y.neg THEN TRUE
  ELSE IF ~x.neg /\ y.neg THEN FALSE
  ELSE IF x.neg THEN MagLt(y, x)
  ELSE MagLt(x, y)

FGt(x, y) == FLt(y, x)

FAbs(x) == [x EXCEPT !.neg = FALSE]

\* The integer n (|n| < LimbBase) and n * 2^e as doubles.
FInt(n) == RoundD(n < 0, BNFromNat(IF n < 0 THEN -n ELSE n), 0)

FDyadic(n, e) == RoundD(n < 0, BNFromNat(IF n < 0 THEN -n ELSE n), e)

\* x / 2^k: exact
FDivPow2(x, k) == IF IsZero(x) THEN x ELSE [x EXCEPT !.exp = x.exp - k]

(***************************************************************************)
(* Reals to FracBits binary places, [neg, mag] standing for                *)
(* (-1)^neg * mag / 2^FracBits.  They carry the mathematical sine that the *)
(* platform's sin() approximates, and measure absolute errors.             *)
(***************************************************************************)
FracBits == 6 * LimbBits

FxOne == BNShl(<<1>>, FracBits)

FxMk(neg, mag) == [neg |-> neg /\ mag # <<>>, mag |-> mag]

FxNeg(a) == FxMk(~a.neg, a.mag)

FxAbs(a) == FxMk(FALSE, a.mag)

FxAdd(a, b) ==
  IF a.neg = b.neg THEN FxMk(a.neg, BNAdd(a.mag, b.mag))
  ELSE IF BNCmp(a.mag, b.mag) >= 0 THEN FxMk(a.neg, BNSub(a.mag, b.mag))
  ELSE FxMk(b.neg, BNSub(b.mag, a.mag))

FxSub(a, b) == FxAdd(a, FxNeg(b))

FxMul(a, b) == FxMk(a.neg # b.neg, BNShr(BNMul(a.mag, b.mag), FracBits))

FxDivSmall(a, d) == FxMk(a.neg, BNDivSmall(a.mag, d).q)

FxLeq(a, b) == LET d == FxSub(a, b) IN d.neg \/ d.mag = <<>>

\* The value of a double, exact when its last bit is at or above 2^-FracBits.
FxFromDouble(x) ==
  IF IsZero(x) THEN FxMk(FALSE, <<>>)
  ELSE IF x.exp + FracBits >= 0 THEN FxMk(x.neg, BNShl(x.man, x.exp + FracBits))
  ELSE FxMk(x.neg, BNShr(x.man, -(x.exp + FracBits)))

FxToDouble(a) == RoundD(a.neg, a.mag, -FracBits)

\* arctan(1/n) = 1/n - 1/(3 n^3) + 1/(5 n^5) - ..., p = 2^FracBits / n^(2k+1)
RECURSIVE ArctanRecipAt(_, _, _)
ArctanRecipAt(n, k, p) ==
  IF p = <<>> THEN FxMk(FALSE, <<>>)
  ELSE FxAdd(FxMk(k % 2 = 1, BNDivSmall(p, 2 * k + 1).q),
             ArctanRecipAt(n, k + 1, BNDivSmall(BNDivSmall(p, n).q, n).q))

ArctanRecip(n) == ArctanRecipAt(n, 0, BNDivSmall(FxOne, n).q)

\* Machin: pi/4 = 4 arctan(1/5) - arctan(1/239)
FxPiMachin ==
  FxSub(FxMk(FALSE, BNMulSmall(ArctanRecip(5).mag, 16)),
        FxMk(FALSE, BNMulSmall(ArctanRecip(239).mag, 4)))

\* pi, written out; ConstantsExact below compares it with FxPiMachin
FxPi ==
  [neg |-> FALSE,
   mag |-> <<26156, 6296, 12429, 4276, 23202, 4639, 3>>]

FxPiHalf == FxDivSmall(FxPi, 2)

FxPiQuarter == FxDivSmall(FxPi, 4)

\* sum of t_k for k = j..SeriesTerms, t_(k+1) = -t_k * r2 / ((d + 1) (d + 2))
\* where d is the degree of t_k
SeriesTerms == 20

RECURSIVE SeriesFrom(_, _, _, _)
SeriesFrom(t, r2, d, j) ==
  IF j > SeriesTerms \/ t.mag = <<>> THEN FxMk(FALSE, <<>>)
  ELSE FxAdd(t, SeriesFrom(FxNeg(FxDivSmall(FxMul(t, r2), (d + 1) * (d + 2))),
                           r2, d + 2, j + 1))

FxSinSeries(r) == SeriesFrom(r, FxMul(r, r), 1, 0)

FxCosSeries(r) == SeriesFrom(FxMk(FALSE, FxOne), FxMul(r, r), 0, 0)

\* the largest n in lo..hi with n * h <= t (lo satisfies it)
RECURSIVE QuadrantSearch(_, _, _, _)
QuadrantSearch(t, h, lo, hi) ==
  IF lo = hi THEN lo
  ELSE LET mid == (lo + hi + 1) \div 2
       IN  IF BNCmp(BNMulSmall(h, mid), t) <= 0
           THEN QuadrantSearch(t, h, mid, hi)
           ELSE QuadrantSearch(t, h, lo, mid - 1)

\* |x| = r + n pi/2 with |r| <= pi/4, for a double |x| < 2^LimbBits
Quadrant(x) ==
  LET a == FxAbs(FxFromDouble(x))
      h == FxPiHalf.mag
      n == QuadrantSearch(BNAdd(a.mag, FxPiQuarter.mag), h, 0, LimbBase - 1)
  IN  [n |-> n, r |-> FxSub(a, FxMk(FALSE, BNMulSmall(h, n)))]

\* sin(x), by sin(r + n pi/2)
FxSin(x) ==
  LET q  == Quadrant(x)
      s  == IF q.n % 2 = 0 THEN FxSinSeries(q.r) ELSE FxCosSeries(q.r)
      sa == IF q.n % 4 >= 2 THEN FxNeg(s) ELSE s
  IN  IF x.neg THEN FxNeg(sa) ELSE sa

\* |x - y| for a double x and a real y
AbsErr(x, y) == FxAbs(FxSub(FxFromDouble(x), y))

\* 1e-9
Tol1e9 == FxMk(FALSE, BNDivSmall(BNDivSmall(BNDivSmall(FxOne, 1000).q, 1000).q, 1000).q)

(***************************************************************************)
(* Constants of the program.                                               *)
(***************************************************************************)
\* The constants are written out as the doubles the compiler produces
\* (significand limbs, low limb first); ConstantsExact below derives each
\* of them again from its defining expression.

\* 1.0
FOne == [neg |-> FALSE, man |-> <<0, 0, 0, 128>>, exp |-> -52]

\* <math.h>: the double nearest to pi, 0x1.921fb54442d18p+1
M_PI == [neg |-> FALSE, man |-> <<11544, 10376, 2029, 201>>, exp |-> -51]

\* -0x1.5555555555555p-3
c3 == [neg |-> TRUE, man |-> <<21845, 10922, 21845, 170>>, exp |-> -55]

\* 0x1.1111111111111p-7
c5 == [neg |-> FALSE, man |-> <<4369, 8738, 17476, 136>>, exp |-> -59]

\* -0x1.a01a01a01a01ap-13
c7 == [neg |-> TRUE, man |-> <<8218, 13315, 1664, 208>>, exp |-> -65]

\* 0x1.71de3a556c734p-19
c9 == [neg |-> FALSE, man |-> <<18228, 19117, 30606, 184>>, exp |-> -71]

\* -0x1.ae64567f544e4p-26
c11 == [neg |-> TRUE, man |-> <<17636, 20458, 6421, 215>>, exp |-> -78]

\* -0x1.0000000000000p-1
c2 == [neg |-> TRUE, man |-> <<0, 0, 0, 128>>, exp |-> -53]

\* 0x1.5555555555555p-5
c4 == [neg |-> FALSE, man |-> <<21845, 10922, 21845, 170>>, exp |-> -57]

\* -0x1.6c16c16c16c17p-10
c6 == [neg |-> TRUE, man |-> <<27671, 11650, 1456, 182>>, exp |-> -62]

\* 0x1.a01a01a01a01ap-16
c8 == [neg |-> FALSE, man |-> <<8218, 13315, 1664, 208>>, exp |-> -68]

\* -0x1.27e4fb7789f5cp-22
c10 == [neg |-> TRUE, man |-> <<8028, 28401, 31038, 147>>, exp |-> -74]

\* n / (f1 * f2 * ...) rounded once: the product of the small integer
\* factors is exact in double, so only the division rounds
RECURSIVE DivChain(_, _, _)
DivChain(num, factors, i) ==
  IF i > Len(factors) THEN [q |-> num, sticky |-> FALSE]
  ELSE LET d    == BNDivSmall(num, factors[i])
           rest == DivChain(d.q, factors, i + 1)
       IN  [q |-> rest.q, sticky |-> rest.sticky \/ d.r # 0]

FQuot(n, factors) ==
  LET num == BNShl(BNFromNat(IF n < 0 THEN -n ELSE n), FracBits)
      d   == DivChain(num, factors, 1)
      man == BNAdd(BNShl(d.q, 1), IF d.sticky THEN <<1>> ELSE <<>>)
  IN  RoundD(n < 0, man, -(FracBits + 1))

ConstantsExact ==
  /\ FxPi = FxPiMachin
  /\ M_PI = FxToDouble(FxPi)
  /\ FOne = FInt(1)
  /\ c3 = FQuot(-1, <<2, 3>>)
  /\ c5 = FQuot(1, <<2, 3, 4, 5>>)
  /\ c7 = FQuot(-1, <<2, 3, 4, 5, 6, 7>>)
  /\ c9 = FQuot(1, <<2, 3, 4, 5, 6, 7, 8, 9>>)
  /\ c11 = FQuot(-1, <<2, 3, 4, 5, 6, 7, 8, 9, 10, 11>>)
  /\ c2 = FQuot(-1, <<2>>)
  /\ c4 = FQuot(1, <<2, 3, 4>>)
  /\ c6 = FQuot(-1, <<2, 3, 4, 5, 6>>)
  /\ c8 = FQuot(1, <<2, 3, 4, 5, 6, 7, 8>>)
  /\ c10 = FQuot(-1, <<2, 3, 4, 5, 6, 7, 8, 9, 10>>)

\* M_PI/4 and M_PI/((double)2)
PiQuarter == FDivPow2(M_PI, 2)

PiHalf == FDivPow2(M_PI, 1)


(***************************************************************************)
(* angle_transform                                                         *)
(***************************************************************************)
\* a loop condition that forgets the lower end of the interval
AT_Outside_UpperOnly(angle) == FGt(angle, PiQuarter)

\* line 155: the loop condition
AT_Outside(angle) == FGt(angle, PiQuarter) \/ FLt(angle, FNeg(PiQuarter))

\* an entry that leaves the caller's flags as they are
AT_Entry_KeepFlags(sign, sin_cos) == [sign |-> sign, sin_cos |-> sin_cos]

\* lines 153-154: the flags as the loop first sees them
AT_Entry(sign, sin_cos) == [sign |-> TRUE, sin_cos |-> TRUE]

\* an iteration whose else branch flips the sign as the then branch does
AT_Step_SameFlip(st) ==
  IF FLt(st.angle, FNeg(PiQuarter))
  THEN [angle   |-> FAdd(st.angle, PiHalf),
        sign    |-> IF st.sin_cos THEN ~st.sign ELSE st.sign,
        sin_cos |-> ~st.sin_cos]
  ELSE [angle   |-> FSub(st.angle, PiHalf),
        sign    |-> IF st.sin_cos THEN ~st.sign ELSE st.sign,
        sin_cos |-> ~st.sin_cos]

\* lines 156-164: one iteration of the loop on [angle, sign, sin_cos]
AT_Step(st) ==
  IF FLt(st.angle, FNeg(PiQuarter))
  THEN [angle   |-> FAdd(st.angle, PiHalf),
        sign    |-> IF st.sin_cos THEN ~st.sign ELSE st.sign,
        sin_cos |-> ~st.sin_cos]
  ELSE [angle   |-> FSub(st.angle, PiHalf),
        sign    |-> IF st.sin_cos THEN st.sign ELSE ~st.sign,
        sin_cos |-> ~st.sin_cos]

RECURSIVE AT_Loop(_)
AT_Loop(st) == IF AT_Outside(st.angle) THEN AT_Loop(AT_Step(st)) ELSE st

\* the whole call: what it leaves in *angle, *sign, *sin_cos
angle_transform(angle, sign, sin_cos) ==
  LET f == AT_Entry(sign, sin_cos)
  IN  AT_Loop([angle |-> angle, sign |-> f.sign, sin_cos |-> f.sin_cos])

(***************************************************************************)
(* The evaluators.  A pointer argument is an array and an offset into it;  *)
(* C element k of the array is element k + 1 of the sequence.              *)
(***************************************************************************)
Null == "nullptr"

\* a null array pointer: an array of no elements
nullptr == <<>>

Lanes == 1..4

\* The power ladder and the running sum of lines 40-50 and 56-68: from a
\* power p and a sum s, for each coefficient c in turn, p becomes p * x2
\* and s becomes s + p * c.
RECURSIVE Ladder(_, _, _, _, _)
Ladder(x2, p, s, cs, k) ==
  IF k > Len(cs) THEN s
  ELSE LET pn == FMul(p, x2)
       IN  Ladder(x2, pn, FAdd(s, FMul(pn, cs[k])), cs, k + 1)

\* sin4_taylor lines 39-50: 1 + x2*c2 + x4*c4 + x6*c6 + x8*c8 + x10*c10
TaylorCos(x1) ==
  LET x2 == FMul(x1, x1)
  IN  Ladder(x2, x2, FAdd(FOne, FMul(x2, c2)), <<c4, c6, c8, c10>>, 1)

\* sin4_taylor lines 55-68: x1 + x3*c3 + x5*c5 + x7*c7 + x9*c9 + x11*c11
TaylorSin(x1) ==
  Ladder(FMul(x1, x1), x1, x1, <<c3, c5, c7, c9, c11>>, 1)

\* one pass of the loop body of sin4_taylor: flags says whether sin_cos_vec
\* is non-null, sign and sin_cos are sign_vec[i] and sin_cos_vec[i]
TaylorLane(x1, flags, sign, sin_cos) ==
  IF flags /\ sin_cos = FALSE
  THEN FMul(TaylorCos(x1), IF sign THEN FInt(1) ELSE FInt(-1))
  ELSE FMul(TaylorSin(x1), IF flags /\ sign = FALSE THEN FInt(-1) ELSE FInt(1))

\* sin4_taylor(sinx, x + xo, sign_vec + so, sin_cos_vec + co): the four
\* values it stores to sinx[0..3]
sin4_taylor(x, xo, sign_vec, so, sin_cos_vec, co) ==
  [i \in Lanes |->
     TaylorLane(x[xo + i], sin_cos_vec # nullptr,
                IF sign_vec # nullptr THEN sign_vec[so + i] ELSE TRUE,
                IF sin_cos_vec # nullptr THEN sin_cos_vec[co + i] ELSE TRUE)]

\* sin(): the double nearest to the sine
LibmSin(x) == FxToDouble(FxSin(x))

sin4_reference(x, xo) == [i \in Lanes |-> LibmSin(x[xo + i])]

\* the instruction sets the build may have: __AVX__, else __SSE2__, else none
Builds == {"AVX", "SSE2", "none"}

\* lines 78-85 and 89-96 compute the same lane value x1 + x3 * c3
IntrinLane(x1) ==
  LET x2 == FMul(x1, x1)
      x3 == FMul(x1, x2)
  IN  FAdd(x1, FMul(x3, c3))

sin4_intrin(x, xo, build) ==
  IF build = "AVX" THEN [i \in Lanes |-> IntrinLane(x[xo + i])]
  ELSE IF build = "SSE2" THEN [i \in Lanes |-> IntrinLane(x[xo + i])]
  ELSE sin4_reference(x, xo)

\* Vec<double,4> of intrin-wrapper.h: lane-wise arithmetic
VecLoadAligned(x, xo) == [i \in Lanes |-> x[xo + i]]

VecMul(a, b) == [i \in Lanes |-> FMul(a[i], b[i])]

VecAdd(a, b) == [i \in Lanes |-> FAdd(a[i], b[i])]

VecScale(a, c) == [i \in Lanes |-> FMul(a[i], c)]

\* the ladder on vectors: p becomes x2 * p and s becomes s + p * c
RECURSIVE VecLadder(_, _, _, _, _)
VecLadder(x2, p, s, cs, k) ==
  IF k > Len(cs) THEN s
  ELSE LET pn == VecMul(x2, p)
       IN  VecLadder(x2, pn, VecAdd(s, VecScale(pn, cs[k])), cs, k + 1)

\* a sin4_vector that stops at the x^9 term
sin4_vector_NoX11(x, xo) ==
  LET x1 == VecLoadAligned(x, xo)
  IN  VecLadder(VecMul(x1, x1), x1, x1, <<c3, c5, c7, c9>>, 1)

\* lines 106-121
sin4_vector(x, xo) ==
  LET x1 == VecLoadAligned(x, xo)
  IN  VecLadder(VecMul(x1, x1), x1, x1, <<c3, c5, c7, c9, c11>>, 1)

\* lines 126-143: s starts as x0 and line 142 adds x0 + x2*c2 + ... + x10*c10
\* to it; x0 is loaded from the buffer `one` of four 1.0
cos4_vector(x, xo) ==
  LET one == [i \in Lanes |-> FOne]
      x0  == VecLoadAligned(one, 0)
      x1  == VecLoadAligned(x, xo)
      x2  == VecMul(x1, x1)
      sum == VecLadder(x2, x2, VecAdd(x0, VecScale(x2, c2)), <<c4, c6, c8, c10>>, 1)
  IN  VecAdd(x0, sum)

\* err: the largest |x[i] - y[i]| over i < N
RECURSIVE ErrFrom(_, _, _, _)
ErrFrom(x, y, i, error) ==
  IF i > Len(x) THEN error
  ELSE LET d == FAbs(FSub(x[i], y[i]))
       IN  ErrFrom(x, y, i + 1, IF FLt(error, d) THEN d ELSE error)

err(x, y) == ErrFrom(x, y, 1, FZero)

\* sinx with sinx[off .. off+3] replaced by vals
Store4(sinx, off, vals) ==
  [k \in 1..Len(sinx) |-> IF off < k /\ k <= off + 4 THEN vals[k - off] ELSE sinx[k]]

(***************************************************************************)
(* State.                                                                  *)
(***************************************************************************)
VARIABLES
  \* one call of angle_transform, an iteration at a time
  a0,          \* the angle the caller passed
  angle,       \* *angle
  sign,        \* *sign
  sin_cos,     \* *sin_cos
  iters,       \* iterations of the loop so far
  m,           \* pi/2 steps subtracted so far less pi/2 steps added
  atpc,        \* "entry", "loop", "ret" (returned), "eval" (evaluated)
  calls,       \* 1 in the first call, 2 in a second call on its result
  first,       \* the angle the first call returned
  res,         \* what the Taylor evaluator made of the reduced angle
  \* main and the batch evaluators
  pc,          \* where main stands
  build,       \* the instruction set of the build
  input,       \* where main's angles come from: "drand48", or "extra"
  x, sign_vec, sin_cos_vec,
  sinx_ref, sinx_taylor, sinx_intrin, sinx_vector,
  cosx,        \* the output of cos4_vector
  i, rep,      \* the loop counters of main
  errs,        \* the errors main printed
  live,        \* buffers aligned_malloc returned that are not freed yet
  frees        \* aligned_free calls so far, per buffer

atVars == <<a0, angle, sign, sin_cos, iters, m, atpc, calls, first, res>>

arrays == <<x, sign_vec, sin_cos_vec, sinx_ref, sinx_taylor, sinx_intrin,
            sinx_vector, cosx>>

mainVars == <<pc, build, input, arrays, i, rep, errs, live, frees>>

vars == <<atVars, mainVars>>

(***************************************************************************)
(* angle_transform on one angle, followed by the evaluator.                *)
(***************************************************************************)
\* bounds of the model
MaxIters == 10200
MaxCalls == 2
AngleK == 6

\* multiples of M_PI/4, the doubles next to the two ends of the interval,
\* and 1, 2.5, -7, 10, 16000, 2^60
AngleInputs ==
  {FMul(FInt(k), PiQuarter) : k \in -AngleK..AngleK}
    \cup {FAdd(PiQuarter, FDyadic(1, -53)), FNeg(FAdd(PiQuarter, FDyadic(1, -53)))}
    \cup {FInt(1), FDyadic(5, -1), FInt(-7), FInt(10), FInt(16000), FDyadic(1, 60)}

MainIdle ==
  /\ pc = "idle" /\ build = "none" /\ input = "drand48"
  /\ x = <<>> /\ sign_vec = <<>> /\ sin_cos_vec = <<>>
  /\ sinx_ref = <<>> /\ sinx_taylor = <<>> /\ sinx_intrin = <<>>
  /\ sinx_vector = <<>> /\ cosx = <<>>
  /\ i = 0 /\ rep = 0 /\ errs = <<>> /\ live = {} /\ frees = <<>>

AtIdle ==
  /\ a0 = FZero /\ angle = FZero /\ sign = TRUE /\ sin_cos = TRUE
  /\ iters = 0 /\ m = 0 /\ atpc = "idle" /\ calls = 0 /\ first = Null
  /\ res = Null

\* the caller's cells hold any flags before the call
ReduceInit ==
  /\ ConstantsExact
  /\ a0 \in AngleInputs
  /\ angle = a0
  /\ sign \in BOOLEAN
  /\ sin_cos \in BOOLEAN
  /\ iters = 0 /\ m = 0 /\ atpc = "entry" /\ calls = 1 /\ first = Null
  /\ res = Null
  /\ MainIdle

\* lines 153-154
AT_Enter ==
  /\ atpc = "entry"
  /\ sign' = AT_Entry(sign, sin_cos).sign
  /\ sin_cos' = AT_Entry(sign, sin_cos).sin_cos
  /\ atpc' = "loop"
  /\ UNCHANGED <<a0, angle, iters, m, calls, first, res, mainVars>>

AT_Cells == [angle |-> angle, sign |-> sign, sin_cos |-> sin_cos]

\* lines 155-159, 164: an iteration that takes the branch angle < -M_PI/4
AT_IterAdd ==
  /\ atpc = "loop"
  /\ iters < MaxIters
  /\ AT_Outside(angle)
  /\ FLt(angle, FNeg(PiQuarter))
  /\ LET st == AT_Step(AT_Cells)
     IN  angle' = st.angle /\ sign' = st.sign /\ sin_cos' = st.sin_cos
  /\ iters' = iters + 1
  /\ m' = m - 1
  /\ UNCHANGED <<a0, atpc, calls, first, res, mainVars>>

\* lines 155, 160-164: an iteration that takes the else branch
AT_IterSub ==
  /\ atpc = "loop"
  /\ iters < MaxIters
  /\ AT_Outside(angle)
  /\ ~FLt(angle, FNeg(PiQuarter))
  /\ LET st == AT_Step(AT_Cells)
     IN  angle' = st.angle /\ sign' = st.sign /\ sin_cos' = st.sin_cos
  /\ iters' = iters + 1
  /\ m' = m + 1
  /\ UNCHANGED <<a0, atpc, calls, first, res, mainVars>>

\* line 155 false, line 166
AT_Return ==
  /\ atpc = "loop"
  /\ ~AT_Outside(angle)
  /\ atpc' = "ret"
  /\ UNCHANGED <<a0, angle, sign, sin_cos, iters, m, calls, first, res, mainVars>>

\* the evaluator on the reduced angle and the flags of the call
Evaluate ==
  /\ atpc = "ret"
  /\ res' = TaylorLane(angle, TRUE, sign, sin_cos)
  /\ atpc' = "eval"
  /\ UNCHANGED <<a0, angle, sign, sin_cos, iters, m, calls, first, mainVars>>

\* angle_transform called again on the cells the first call left
AT_CallAgain ==
  /\ atpc = "ret"
  /\ calls < MaxCalls
  /\ first' = angle
  /\ a0' = angle
  /\ iters' = 0 /\ m' = 0
  /\ calls' = calls + 1
  /\ atpc' = "entry"
  /\ UNCHANGED <<angle, sign, sin_cos, res, mainVars>>

ReduceNext ==
  \/ AT_Enter
  \/ AT_IterAdd
  \/ AT_IterSub
  \/ AT_Return
  \/ Evaluate
  \/ AT_CallAgain

SpecReduce == ReduceInit /\ [][ReduceNext]_vars

Spec == SpecReduce

(***************************************************************************)
(* The batch evaluators on one batch of four reduced angles.               *)
(***************************************************************************)
\* reduced inputs: the ends of [-pi/4, pi/4], zero, and 1/2 either side
BatchInputs ==
  <<FNeg(PiQuarter), FDyadic(-1, -1), FZero, FDyadic(1, -1), PiQuarter>>

\* the batches of four: one value in all lanes, or four consecutive values
\* of BatchInputs (cyclically) from any start
Batches ==
  {[l \in Lanes |-> BatchInputs[v]] : v \in 1..Len(BatchInputs)} \cup
  {[l \in Lanes |-> BatchInputs[((l + r) % Len(BatchInputs)) + 1]] :
     r \in 1..Len(BatchInputs)}

BatchInit ==
  /\ ConstantsExact
  /\ AtIdle
  /\ pc = "b_reference"
  /\ build \in Builds
  /\ input = "drand48"
  /\ x \in Batches
  /\ sign_vec = <<>> /\ sin_cos_vec = <<>>
  /\ sinx_ref = <<>> /\ sinx_taylor = <<>> /\ sinx_intrin = <<>>
  /\ sinx_vector = <<>> /\ cosx = <<>>
  /\ i = 0 /\ rep = 0 /\ errs = <<>> /\ live = {} /\ frees = <<>>

B_Reference ==
  /\ pc = "b_reference"
  /\ sinx_ref' = sin4_reference(x, 0)
  /\ pc' = "b_taylor"
  /\ UNCHANGED <<atVars, build, input, x, sign_vec, sin_cos_vec, sinx_taylor,
                 sinx_intrin, sinx_vector, cosx, i, rep, errs, live, frees>>

\* sin4_taylor(sinx, x): the flag pointers default to nullptr
B_Taylor ==
  /\ pc = "b_taylor"
  /\ sinx_taylor' = sin4_taylor(x, 0, nullptr, 0, nullptr, 0)
  /\ pc' = "b_intrin"
  /\ UNCHANGED <<atVars, build, input, x, sign_vec, sin_cos_vec, sinx_ref,
                 sinx_intrin, sinx_vector, cosx, i, rep, errs, live, frees>>

B_Intrin ==
  /\ pc = "b_intrin"
  /\ sinx_intrin' = sin4_intrin(x, 0, build)
  /\ pc' = "b_vector"
  /\ UNCHANGED <<atVars, build, input, x, sign_vec, sin_cos_vec, sinx_ref,
                 sinx_taylor, sinx_vector, cosx, i, rep, errs, live, frees>>

B_Vector ==
  /\ pc = "b_vector"
  /\ sinx_vector' = sin4_vector(x, 0)
  /\ pc' = "b_cos"
  /\ UNCHANGED <<atVars, build, input, x, sign_vec, sin_cos_vec, sinx_ref,
                 sinx_taylor, sinx_intrin, cosx, i, rep, errs, live, frees>>

\* cos4_vector: line 127 allocates `one`; nothing frees it
B_Cos ==
  /\ pc = "b_cos"
  /\ cosx' = cos4_vector(x, 0)
  /\ live' = live \cup {"one"}
  /\ pc' = "b_done"
  /\ UNCHANGED <<atVars, build, input, x, sign_vec, sin_cos_vec, sinx_ref,
                 sinx_taylor, sinx_intrin, sinx_vector, i, rep, errs, frees>>

BatchNext == B_Reference \/ B_Taylor \/ B_Intrin \/ B_Vector \/ B_Cos

SpecBatch == BatchInit /\ [][BatchNext]_vars

(***************************************************************************)
(* main.                                                                   *)
(***************************************************************************)
\* bounds of the model: batches of four in the arrays (N = 4 * NBatches
\* stands for the 1000000 of line 170) and repetitions of each timing loop
\* (for the 1000 of lines 192, 200, 208, 216)
NBatches == 2
Reps == 1

N == 4 * NBatches

MainBuffers ==
  {"x", "sinx_ref", "sinx_taylor", "sinx_intrin", "sinx_vector", "sign_vec",
   "sin_cos_vec"}

\* lines 223-227
FreeOrder == <<"x", "sinx_ref", "sinx_taylor", "sinx_intrin", "sinx_vector">>

\* line 180: (drand48() - 0.5) * M_PI / 2 for the drand48() values 0 and 3/4
Drand48Values == {FZero, FDyadic(3, -2)}

Line180(d) == FDivPow2(FMul(FSub(d, FDyadic(1, -1)), M_PI), 1)

\* the angles x[i] starts from: those of line 180, or, for the case the
\* comment at line 183 provides for, angles outside [-pi/4, pi/4] too
StartAngles ==
  IF input = "drand48" THEN {Line180(d) : d \in Drand48Values}
  ELSE {FDyadic(1, -2), FInt(1)}

Undef == "uninitialised"

Fresh == [k \in 1..N |-> Undef]

\* main before its first statement, whatever the angles come from
MainStart ==
  /\ ConstantsExact
  /\ AtIdle
  /\ pc = "alloc"
  /\ build \in Builds
  /\ x = <<>> /\ sign_vec = <<>> /\ sin_cos_vec = <<>>
  /\ sinx_ref = <<>> /\ sinx_taylor = <<>> /\ sinx_intrin = <<>>
  /\ sinx_vector = <<>> /\ cosx = <<>>
  /\ i = 0 /\ rep = 0 /\ errs = <<>> /\ live = {}
  /\ frees = [b \in MainBuffers |-> 0]

\* lines 171-177
M_Alloc ==
  /\ pc = "alloc"
  /\ live' = live \cup MainBuffers
  /\ x' = Fresh /\ sign_vec' = Fresh /\ sin_cos_vec' = Fresh
  /\ sinx_ref' = Fresh /\ sinx_taylor' = Fresh /\ sinx_intrin' = Fresh
  /\ sinx_vector' = Fresh
  /\ pc' = "init"
  /\ UNCHANGED <<atVars, build, input, cosx, i, rep, errs, frees>>

\* lines 179-189: one pass of the loop
M_InitElem ==
  /\ pc = "init"
  /\ i < N
  /\ \E a \in StartAngles :
        LET t == angle_transform(a, TRUE, TRUE)
        IN  /\ x' = [x EXCEPT ![i + 1] = t.angle]
            /\ sign_vec' = [sign_vec EXCEPT ![i + 1] = t.sign]
            /\ sin_cos_vec' = [sin_cos_vec EXCEPT ![i + 1] = t.sin_cos]
  /\ sinx_ref' = [sinx_ref EXCEPT ![i + 1] = FZero]
  /\ sinx_taylor' = [sinx_taylor EXCEPT ![i + 1] = FZero]
  /\ sinx_intrin' = [sinx_intrin EXCEPT ![i + 1] = FZero]
  /\ sinx_vector' = [sinx_vector EXCEPT ![i + 1] = FZero]
  /\ IF i + 1 < N THEN i' = i + 1 /\ pc' = pc
     ELSE i' = 0 /\ pc' = "ref"
  /\ UNCHANGED <<atVars, build, input, cosx, rep, errs, live, frees>>

\* the counters of a timing loop after the batch at i: on to the next
\* batch, the next repetition, or the printf after the loop
LoopOn(after) ==
  IF i + 4 < N THEN i' = i + 4 /\ rep' = rep /\ pc' = pc
  ELSE IF rep + 1 < Reps THEN i' = 0 /\ rep' = rep + 1 /\ pc' = pc
  ELSE i' = 0 /\ rep' = 0 /\ pc' = after

\* lines 192-196
M_Reference ==
  /\ pc = "ref"
  /\ sinx_ref' = Store4(sinx_ref, i, sin4_reference(x, i))
  /\ LoopOn("taylor")
  /\ UNCHANGED <<atVars, build, input, x, sign_vec, sin_cos_vec, sinx_taylor,
                 sinx_intrin, sinx_vector, cosx, errs, live, frees>>

\* lines 200-204: the flag arrays are passed from their first element
M_Taylor ==
  /\ pc = "taylor"
  /\ sinx_taylor' =
       Store4(sinx_taylor, i, sin4_taylor(x, i, sign_vec, 0, sin_cos_vec, 0))
  /\ LoopOn("print_taylor")
  /\ UNCHANGED <<atVars, build, input, x, sign_vec, sin_cos_vec, sinx_ref,
                 sinx_intrin, sinx_vector, cosx, errs, live, frees>>

\* lines 208-212
M_Intrin ==
  /\ pc = "intrin"
  /\ sinx_intrin' = Store4(sinx_intrin, i, sin4_intrin(x, i, build))
  /\ LoopOn("print_intrin")
  /\ UNCHANGED <<atVars, build, input, x, sign_vec, sin_cos_vec, sinx_ref,
                 sinx_taylor, sinx_vector, cosx, errs, live, frees>>

\* lines 216-220
M_Vector ==
  /\ pc = "vector"
  /\ sinx_vector' = Store4(sinx_vector, i, sin4_vector(x, i))
  /\ LoopOn("print_vector")
  /\ UNCHANGED <<atVars, build, input, x, sign_vec, sin_cos_vec, sinx_ref,
                 sinx_taylor, sinx_intrin, cosx, errs, live, frees>>

\* lines 205, 213, 221: the error each printf reports
M_Print ==
  /\ \/ pc = "print_taylor" /\ errs' = Append(errs, err(sinx_ref, sinx_taylor))
                            /\ pc' = "intrin"
     \/ pc = "print_intrin" /\ errs' = Append(errs, err(sinx_ref, sinx_intrin))
                            /\ pc' = "vector"
     \/ pc = "print_vector" /\ errs' = Append(errs, err(sinx_ref, sinx_vector))
                            /\ pc' = "free"
  /\ UNCHANGED <<atVars, build, input, arrays, i, rep, live, frees>>

\* lines 223-227, one aligned_free at a time
M_Free ==
  /\ pc = "free"
  /\ i < Len(FreeOrder)
  /\ live' = live \ {FreeOrder[i + 1]}
  /\ frees' = [frees EXCEPT ![FreeOrder[i + 1]] = @ + 1]
  /\ i' = i + 1
  /\ UNCHANGED <<atVars, pc, build, input, arrays, rep, errs>>

\* line 228
M_Return ==
  /\ pc = "free"
  /\ i = Len(FreeOrder)
  /\ pc' = "returned"
  /\ UNCHANGED <<atVars, build, input, arrays, i, rep, errs, live, frees>>

MainNext ==
  \/ M_Alloc
  \/ M_InitElem
  \/ M_Reference
  \/ M_Taylor
  \/ M_Intrin
  \/ M_Vector
  \/ M_Print
  \/ M_Free
  \/ M_Return

\* main as written
MainInit == MainStart /\ input = "drand48"

SpecMain == MainInit /\ [][MainNext]_vars

\* main fed angles outside the interval as well
ExtraInit == MainStart /\ input = "extra"

SpecExtra == ExtraInit /\ [][MainNext]_vars

(***************************************************************************)
(* Claims about angle_transform.                                           *)
(***************************************************************************)
Returned == atpc \in {"ret", "eval"}

\* |a| <= pi/4 for a double a, pi being the real number
InInterval(a) == FxLeq(FxAbs(FxFromDouble(a)), FxPiQuarter)

ThreePiQuarter == FMul(FInt(3), PiQuarter)

\* C1: when angle_transform has returned, the angle it left in *angle lies
\* in [-pi/4, pi/4].
C1_ReducedInInterval == Returned => InInterval(angle)

\* a call that started outside the interval, looped and returned
C1_Witness == atpc = "ret" /\ calls = 1 /\ ~InInterval(a0) /\ iters >= 4 /\ m < 0

\* C2: the evaluator's value on the reduced angle and flags is within 1e-9
\* of sin(a0) for every finite a0.
C2_Within1e9 == (atpc = "eval" /\ calls = 1) => FxLeq(AbsErr(res, FxSin(a0)), Tol1e9)

\* C3: while the angle is outside the interval every iteration of the loop
\* makes |angle| smaller (by pi/2), which is why the loop ends.
C3_EachIterationReduces ==
  [][(atpc = "loop" /\ iters' = iters + 1) => MagLt(angle', angle)]_vars

\* C4: a call on an angle already in [-pi/4, pi/4] (both ends included)
\* runs no iteration and returns the angle as it was with both flags TRUE,
\* whatever the flags held before; a second call returns the angle of the
\* first.
C4_FixedOnInterval ==
  /\ (Returned /\ InInterval(a0)) =>
        (iters = 0 /\ angle = a0 /\ sign = TRUE /\ sin_cos = TRUE)
  /\ (Returned /\ calls = 2) => angle = first

\* the second of two calls has returned, the first having started at the
\* end M_PI/4 of the interval
C4_Witness ==
  atpc = "ret" /\ calls = 2 /\ first = PiQuarter /\ a0 = PiQuarter /\ iters = 0

\* C5 as amended: for a0 = 3*pi/4 the call makes exactly one subtraction,
\* returns +pi/4 with the selector on cosine and the sign positive, and the
\* evaluator's value is within 1e-9 of sin(3*pi/4).
C5_ThreePiQuarter ==
  (calls = 1 /\ a0 = ThreePiQuarter /\ Returned) =>
     /\ iters = 1 /\ m = 1
     /\ angle = PiQuarter
     /\ sin_cos = FALSE /\ sign = TRUE
     /\ atpc = "eval" => FxLeq(AbsErr(res, FxSin(a0)), Tol1e9)

C5_Witness == calls = 1 /\ a0 = ThreePiQuarter /\ atpc = "eval"

\* C5 as stated: the same, the reduced angle being -pi/4.
C5_AsStated ==
  (calls = 1 /\ a0 = ThreePiQuarter /\ Returned) =>
     /\ iters = 1 /\ m = 1
     /\ angle = FNeg(PiQuarter)
     /\ sin_cos = FALSE /\ sign = TRUE
     /\ atpc = "eval" => FxLeq(AbsErr(res, FxSin(a0)), Tol1e9)

\* the flags <<sin_cos, sign>> that stand for sin(a + k pi/2)
FlagTable(k) ==
  IF k = 0 THEN <<TRUE, TRUE>>
  ELSE IF k = 1 THEN <<FALSE, TRUE>>
  ELSE IF k = 2 THEN <<TRUE, FALSE>>
  ELSE <<FALSE, FALSE>>

\* n * pi/2 for an integer |n| < LimbBase
FxPiHalfTimes(n) ==
  FxMk(n < 0, BNMulSmall(FxPiHalf.mag, IF n < 0 THEN -n ELSE n))

\* C9: at every iteration boundary a0 - angle is m * pi/2 (to within 1e-9)
\* and the flags are those of m mod 4.
C9_LoopInvariant ==
  atpc \in {"loop", "ret"} =>
     /\ <<sin_cos, sign>> = FlagTable(m % 4)
     /\ FxLeq(FxAbs(FxSub(FxSub(FxFromDouble(a0), FxFromDouble(angle)),
                          FxPiHalfTimes(m))), Tol1e9)

\* the part of C9 about the flags alone
C9_FlagsFollowM == atpc \in {"loop", "ret"} => <<sin_cos, sign>> = FlagTable(m % 4)

\* 3e-3
Tol3e3 == FxMk(FALSE, BNDivSmall(BNMulSmall(FxOne, 3), 1000).q)

\* |a - b| <= tol for doubles a and b
Near(a, b, tol) == FxLeq(AbsErr(a, FxFromDouble(b)), tol)

BatchDone == pc = "b_done"

\* C6: for a batch of reduced inputs, sin4_taylor and sin4_vector write the
\* same double to every lane, within 1e-9 of what sin4_reference writes;
\* sin4_intrin writes what sin4_reference writes in a build with neither AVX
\* nor SSE2, and otherwise the degree-3 value, within 3e-3 of it.
C6_BatchAgreement ==
  BatchDone =>
    \A l \in Lanes :
       /\ sinx_taylor[l] = sinx_vector[l]
       /\ Near(sinx_taylor[l], sinx_ref[l], Tol1e9)
       /\ IF build = "none" THEN sinx_intrin[l] = sinx_ref[l]
          ELSE Near(sinx_intrin[l], sinx_ref[l], Tol3e3)

\* an AVX batch is done whose lane 1 holds pi/4, where sin4_intrin is more
\* than 1e-9 away from sin4_reference
C6_Witness ==
  /\ BatchDone /\ build = "AVX" /\ x[1] = PiQuarter
  /\ ~Near(sinx_intrin[1], sinx_ref[1], Tol1e9)
  /\ sinx_taylor[1] = sinx_vector[1]

\* C6 as stated: the four strategies write the same value to every lane, to
\* within 1e-9.
C6_AsStated ==
  BatchDone =>
    \A l \in Lanes :
       /\ Near(sinx_taylor[l], sinx_ref[l], Tol1e9)
       /\ Near(sinx_intrin[l], sinx_ref[l], Tol1e9)
       /\ Near(sinx_vector[l], sinx_ref[l], Tol1e9)

\* C7: cos4_vector stores in every lane the degree-10 cosine polynomial of
\* the lane's input, the value of the cosine branch of sin4_taylor with a
\* positive sign (to within 1e-9).
C7_CosPolynomial ==
  BatchDone =>
    \A l \in Lanes : Near(cosx[l], TaylorLane(x[l], TRUE, TRUE, FALSE), Tol1e9)

\* C8: when the Taylor timing loop of main is over, every sinx_taylor[k] is
\* the scalar evaluation of x[k] under sign_vec[k] and sin_cos_vec[k].
C8_OwnFlags ==
  pc = "print_taylor" =>
    \A k \in 1..N :
       sinx_taylor[k] = TaylorLane(x[k], TRUE, sign_vec[k], sin_cos_vec[k])

\* C10: when main has returned, no buffer is outstanding and each of the
\* seven buffers of main has been freed exactly once.
C10_AllFreed ==
  pc = "returned" => live = {} /\ \A b \in MainBuffers : frees[b] = 1
====
